---- MODULE Spec2Model ----
(***************************************************************************)
(* State-machine model of the CNCF issue tracker bot                       *)
(* (src/cncf_issue_tracker.py, src/config.py).                             *)
(*                                                                         *)
(* One process runs main(): the configuration gate, the startup            *)
(* announcement, then the monitoring loop of run().  A cycle               *)
(* (check_all_repositories) cuts the repository list into batches; the     *)
(* tasks of one batch (check_repository) run concurrently on the event     *)
(* loop and interleave only where they await: the fetch, the send and the  *)
(* pacing sleep.  Each action below is one such atomic stretch of code.    *)
(* The tracked_issues table is the only state that survives a restart.     *)
(***************************************************************************)
EXTENDS Integers, Sequences, FiniteSets, TLC

VARIABLES
    env,               \* the surroundings, fixed for a behaviour: os.environ and config.py
                       \* as Config() reads them, and the issue ids the source can return
    pc,                \* where main()/run() stands
    db,                \* table tracked_issues: the number of rows held for each
                       \* (issue_id, repository) that has a row
    tasks,             \* the check_repository coroutines of the batch being gathered
    check_minutes,     \* local of check_all_repositories
    i,                 \* loop index of check_all_repositories (0-based start of the batch)
    new_issues_count,  \* local of check_all_repositories
    returned,          \* value returned by the last cycle that returned, None otherwise
    sleepSecs,         \* argument of the asyncio.sleep the run-loop is waiting in (0: none)
    batches,           \* history of this cycle: sizes of the batches formed, in order
    delays,            \* history of this cycle: number of inter-batch sleeps started
    fetchLog,          \* history of this cycle: the get_recent_issues calls, in order
    outcomes,          \* history of this cycle: per gathered task, what it did
    sentOK,            \* history, all runs: successful item notifications per key
    run,               \* history of this process run: the calls it has issued
    insert_failed,     \* history, all runs: some INSERT failed (error swallowed or raised)
    cycles,            \* cycles begun, all runs (bounded by MaxCycles)
    restarts,          \* process restarts so far (bounded by MaxRestarts)
    faults,            \* injected exceptions so far (bounded by MaxFaults)
    fmt_issue,         \* the Issue handed to format_issue_notification: title and labels
    message,           \* what format_issue_notification returned for it: the title and
                       \* the label texts as they stand in the message
    http,              \* one call of get_recent_issues followed step by step: its
                       \* arguments, the response in flight, the requests issued, the result
    clock,             \* the run-loop on a time line, in seconds: now, the time and the
                       \* since_time of each cycle's fetch, the time an issue was updated
    intake             \* one check_repository call followed from the JSON array of its
                       \* fetch to its return: the labels as received, the Issues
                       \* parsed, what was formatted, sent and recorded, the count

vars == <<env, pc, db, tasks, check_minutes, i, new_issues_count, returned, sleepSecs,
          batches, delays, fetchLog, outcomes, sentOK, run, insert_failed,
          cycles, restarts, faults, fmt_issue, message, http, clock, intake>>

---------------------------------------------------------------------------
(* Bounds of the model *)

MaxLong == 7       \* longest list of distinct repositories drawn by Init
MaxLongBatch == 3  \* largest BATCH_SIZE drawn with those lists
MaxCycles == 2     \* cycles begun in one behaviour
MaxRestarts == 1   \* restarts in one behaviour
MaxFaults == 1     \* exceptions injected in one behaviour
MaxTail == 2       \* free characters at either end of a title or label name
MaxLabels == 8     \* most labels of one issue

(* Program constants *)

MIN_CHECK_MINUTES == 5     \* max(5, ...) in check_all_repositories
COOLDOWN == 120            \* asyncio.sleep(120) in the except branch of run

Repos == {"a", "b"}
LongNames == <<"r1", "r2", "r3", "r4", "r5", "r6", "r7", "r8", "r9">>
LongList == SubSeq(LongNames, 1, IF MaxLong < Len(LongNames) THEN MaxLong ELSE Len(LongNames))
AllRepos == Repos \cup {LongList[k] : k \in DOMAIN LongList}
IssueIds == {1, 2}
None == 0 - 1      \* Python's None where a count is expected: no count is negative

Max(x, y) == IF x >= y THEN x ELSE y

\* All sequences over S of length at most n
RECURSIVE SeqsUpTo(_, _)
SeqsUpTo(S, n) ==
    IF n = 0 THEN {<<>>}
    ELSE LET shorter == SeqsUpTo(S, n - 1)
         IN  shorter \cup {Append(s, x) : s \in {q \in shorter : Len(q) = n - 1}, x \in S}

RECURSIVE SumSeq(_)
SumSeq(s) == IF s = <<>> THEN 0 ELSE Head(s) + SumSeq(Tail(s))

Keys == [id : IssueIds, repository : AllRepos]
Key(issue) == [id |-> issue.id, repository |-> issue.repository]

---------------------------------------------------------------------------
(* Config *)

\* the same division rounding a started minute up
IntDiv60RoundsUp(x) == IF x >= 0 THEN (x + 59) \div 60 ELSE -((-x) \div 60)

\* Python's int(x / 60) for an int x: true division, then truncation toward zero
IntDiv60(x) == IF x >= 0 THEN x \div 60 ELSE -((-x) \div 60)

\* Config.__post_init__: an empty repositories field is filled from REPOSITORIES
post_init(repositories, REPOSITORIES) ==
    IF repositories = <<>> THEN REPOSITORIES ELSE repositories

\* Config() as main() builds it: every field from the environment, repositories defaulted
Config(e) ==
    [ telegram_bot_token   |-> e.TELEGRAM_BOT_TOKEN,
      telegram_chat_id     |-> e.TELEGRAM_CHAT_ID,
      check_interval       |-> e.CHECK_INTERVAL,
      repositories         |-> post_init(<<>>, e.REPOSITORIES),
      batch_size           |-> e.BATCH_SIZE,
      check_buffer_minutes |-> e.CHECK_BUFFER_MINUTES ]

config == Config(env)

---------------------------------------------------------------------------
(* Database *)

\* The table maps a key to the number of its rows (a key with no row is not in the
\* domain): created_at is fixed by the issue, tracked_at is not modelled.
Rows(d, key) == IF key \in DOMAIN d THEN d[key] ELSE 0

\* Database.init_db: CREATE TABLE IF NOT EXISTS leaves an existing table as it is
init_db(d) == d

\* Database.is_issue_tracked: SELECT 1 ... WHERE issue_id = ? AND repository = ?
is_issue_tracked(d, issue_id, repository) ==
    Rows(d, [id |-> issue_id, repository |-> repository]) > 0

\* the table with one more row for the key of issue
Insert(d, issue) ==
    [key \in DOMAIN d \cup {Key(issue)} |->
        IF key = Key(issue) THEN Rows(d, key) + 1 ELSE d[key]]

\* the same INSERT on a table without the primary key: a second row
add_issue_no_primary_key(d, issue) == Insert(d, issue)

\* Database.add_issue: INSERT OR IGNORE under PRIMARY KEY (issue_id, repository)
add_issue(d, issue) ==
    IF Rows(d, Key(issue)) > 0 THEN d ELSE Insert(d, issue)

---------------------------------------------------------------------------
(* CNCFIssueTracker.check_all_repositories, the synchronous parts *)

\* check_minutes = max(5, int(check_interval / 60) + check_buffer_minutes)
CheckMinutes(check_interval, check_buffer_minutes) ==
    Max(MIN_CHECK_MINUTES, IntDiv60(check_interval) + check_buffer_minutes)

\* the configured value taken as it is, without the floor of 1
batch_size_unclamped == config.batch_size

\* batch_size = max(1, self.config.batch_size)
batch_size == Max(1, config.batch_size)

\* self.config.repositories[i:i + batch_size], i 0-based
Batch(start) ==
    LET n == Len(config.repositories)
        last == IF start + batch_size < n THEN start + batch_size ELSE n
    IN  SubSeq(config.repositories, start + 1, last)

\* a check_repository coroutine that has run up to its first await (the fetch)
NewTask(repository) ==
    [ repository    |-> repository,
      pc            |-> "fetch",
      recent_issues |-> <<>>,      \* the issues the for loop has still to take
      new_count     |-> 0,
      result        |-> None,
      raised        |-> FALSE,
      fetched       |-> <<>>,      \* history: ids the fetch returned
      pre           |-> {},        \* history: ids of this repository tracked when it returned
      notified      |-> <<>>,      \* history: ids a send was issued for
      oks           |-> 0,         \* history: sends that returned True
      created       |-> 0 ]        \* history: rows this task's add_issue calls created

\* the tasks list of one batch, each task started by gather up to its fetch
StartBatch(start) == [k \in 1..Len(Batch(start)) |-> NewTask(Batch(start)[k])]

\* the get_recent_issues calls those tasks make, in list order
FetchCalls(start, since_minutes) ==
    [k \in 1..Len(Batch(start)) |->
        [repository |-> Batch(start)[k], since_minutes |-> since_minutes]]

---------------------------------------------------------------------------
(* CNCFIssueTracker.check_repository *)

\* the for loop from where it stands: tracked issues are passed without an await
RECURSIVE NextUntracked(_, _)
NextUntracked(issues, d) ==
    IF issues = <<>> THEN <<>>
    ELSE IF is_issue_tracked(d, Head(issues).id, Head(issues).repository)
         THEN NextUntracked(Tail(issues), d)
         ELSE issues

\* runs the loop to its next await (notify_new_issue of an untracked issue) or to return
ResumeLoop(t, d) ==
    LET rest == NextUntracked(t.recent_issues, d)
    IN  IF rest = <<>>
        THEN [t EXCEPT !.pc = "done", !.recent_issues = <<>>, !.result = t.new_count]
        ELSE [t EXCEPT !.pc = "send", !.recent_issues = rest,
                       !.notified = Append(@, Head(rest).id)]

\* the same handler returning the count reached so far
RaiseKeepsCount(t) ==
    [t EXCEPT !.pc = "done", !.recent_issues = <<>>, !.result = t.new_count, !.raised = TRUE]

\* except Exception: log and return 0
Raise(t) ==
    [t EXCEPT !.pc = "done", !.recent_issues = <<>>, !.result = 0, !.raised = TRUE]

---------------------------------------------------------------------------
(* Initial states *)

NoRun ==
    [ constructed   |-> FALSE,   \* CNCFIssueTracker(config) was built
      startup_sends |-> 0,       \* startup announcements issued
      startup_ok    |-> "none",  \* what the startup send returned: "none" yet, "True", "False"
      looped        |-> FALSE,   \* the while loop was entered
      fetched       |-> FALSE,   \* a fetch was issued
      notified      |-> FALSE,   \* an item notification was issued
      wrote         |-> FALSE,   \* add_issue was called
      errors        |-> 0,       \* exceptions caught by run
      error_sends   |-> 0,       \* error notifications issued
      interrupted   |-> "no" ]   \* how a KeyboardInterrupt ended run: "break", "uncaught"

EmptyDb == <<>>

InitWith(E) ==
    /\ env \in E
    /\ pc = "main"
    /\ db = EmptyDb
    /\ tasks = <<>>
    /\ check_minutes = 0
    /\ i = 0
    /\ new_issues_count = 0
    /\ returned = None
    /\ sleepSecs = 0
    /\ batches = <<>>
    /\ delays = 0
    /\ fetchLog = <<>>
    /\ outcomes = <<>>
    /\ sentOK = [key \in {} |-> 0]
    /\ run = NoRun
    /\ insert_failed = FALSE
    /\ cycles = 0
    /\ restarts = 0
    /\ faults = 0

\* the tracker started with no issue being formatted
NoIssue == [title |-> <<>>, labels |-> <<>>]
NoMessage == [set |-> FALSE, title |-> <<>>, labels |-> <<>>]

\* the lists of at most two names over Repos, up to renaming
DedupLists == {<<>>, <<"a">>, <<"a", "a">>, <<"a", "b">>}

\* the open issues upstream: two in repository a, one in repository b
TwoAndOne == [id : IssueIds, repository : {"a"}] \cup {[id |-> 1, repository |-> "b"]}

\* short lists, a repeated name among them, every credential gate
DedupEnvs ==
    [ TELEGRAM_BOT_TOKEN   : {"", "token"},
      TELEGRAM_CHAT_ID     : {"", "chat"},
      REPOSITORIES         : DedupLists,
      BATCH_SIZE           : 1..2,
      CHECK_INTERVAL       : {180},
      CHECK_BUFFER_MINUTES : {2},
      ISSUES               : {TwoAndOne} ]

\* long lists of distinct names, batch sizes from negative up, a source with no issue
PacingEnvs ==
    [ TELEGRAM_BOT_TOKEN   : {"token"},
      TELEGRAM_CHAT_ID     : {"chat"},
      REPOSITORIES         : {SubSeq(LongList, 1, n) : n \in 3..Len(LongList)},
      BATCH_SIZE           : -1..MaxLongBatch,
      CHECK_INTERVAL       : {180},
      CHECK_BUFFER_MINUTES : {2},
      ISSUES               : {{}} ]

\* intervals and buffers, one repository, one issue
Intervals == {-90, 0, 59, 60, 90, 180, 200, 600}
Buffers == {-1, 0, 1, 2, 4}
WindowEnvs ==
    [ TELEGRAM_BOT_TOKEN   : {"token"},
      TELEGRAM_CHAT_ID     : {"chat"},
      REPOSITORIES         : {<<"a">>},
      BATCH_SIZE           : {3},
      CHECK_INTERVAL       : Intervals,
      CHECK_BUFFER_MINUTES : Buffers,
      ISSUES               : {{[id |-> 1, repository |-> "a"]}} ]

Environments == DedupEnvs \cup PacingEnvs \cup WindowEnvs

NoCall == [pc |-> "none"]
NoClock == [pc |-> "none"]
NoPass == [pc |-> "none"]

Init ==
    /\ InitWith(Environments)
    /\ fmt_issue = NoIssue /\ message = NoMessage /\ http = NoCall /\ clock = NoClock
    /\ intake = NoPass

---------------------------------------------------------------------------
(* GitHubAPI.get_recent_issues *)

\* the JSON array of a 200 response: entries newest first, no id twice, each an
\* issue or a pull request
Payloads(ids) ==
    {s \in SeqsUpTo([id : ids, pull_request : BOOLEAN], Cardinality(ids)) :
        \A m, n \in DOMAIN s : m # n => s[m].id # s[n].id}

Statuses == {200, 204, 301, 403, 404, 500}

\* what session.get can end in for a repository: a status (with its array when
\* 200), a 200 whose body cannot be read or parsed, a timeout, a transport exception
Responses(issues, repository) ==
    LET ids == {key.id : key \in {x \in issues : x.repository = repository}}
    IN  [kind : {"status"}, status : {200}, payload : Payloads(ids)]
            \cup [kind : {"status"}, status : Statuses \ {200}, payload : {<<>>}]
            \cup [kind : {"unreadable"}, status : {200}, payload : {<<>>}]
            \cup [kind : {"timeout", "exception"}, status : {0}, payload : {<<>>}]

\* for issue_data in issues_data: if not issue_data.get('pull_request'): append
RECURSIVE ParseIssues(_)
ParseIssues(payload) ==
    IF payload = <<>> THEN <<>>
    ELSE (IF Head(payload).pull_request THEN <<>> ELSE <<Head(payload).id>>)
            \o ParseIssues(Tail(payload))

\* the same body with the two except clauses removed
get_recent_issues_uncaught(resp) ==
    IF resp.kind = "status" /\ resp.status = 200
    THEN [raised |-> FALSE, issues |-> ParseIssues(resp.payload)]
    ELSE [raised |-> resp.kind # "status", issues |-> <<>>]

\* the body of get_recent_issues once the request has ended: the ids of the
\* issues returned, or [] on every other status and on every exception
get_recent_issues(resp) ==
    IF resp.kind = "status" /\ resp.status = 200
    THEN [raised |-> FALSE, issues |-> ParseIssues(resp.payload)]
    ELSE [raised |-> FALSE, issues |-> <<>>]

\* what a call can return for a repository
FetchResults(issues, repository) ==
    {get_recent_issues(resp).issues : resp \in Responses(issues, repository)}

---------------------------------------------------------------------------
(* main and CNCFIssueTracker.run *)

\* the gate without the test of the chat id
ConfigValidTokenOnly(c) ==
    /\ c.telegram_bot_token # ""
    /\ c.repositories # <<>>

\* the two validations of main()
ConfigValid(c) ==
    /\ c.telegram_bot_token # "" /\ c.telegram_chat_id # ""
    /\ c.repositories # <<>>

\* run's except Exception branch up to its await: one error message is sent
Caught(r) == [r EXCEPT !.errors = @ + 1, !.error_sends = @ + 1]

memory == <<tasks, check_minutes, i, new_issues_count, returned, sleepSecs,
            batches, delays, fetchLog, outcomes>>
store == <<db, sentOK, insert_failed>>
budget == <<cycles, restarts, faults>>
unit == <<fmt_issue, message, http, clock, intake>>

\* main(): the gate; on success CNCFIssueTracker(config) and run() up to the await
\* of the startup announcement
main ==
    /\ pc = "main"
    /\ IF ConfigValid(config)
       THEN /\ pc' = "startup"
            /\ run' = [run EXCEPT !.constructed = TRUE, !.startup_sends = @ + 1]
            /\ db' = init_db(db)
       ELSE /\ pc' = "exited"
            /\ run' = run
            /\ db' = db
    /\ UNCHANGED <<env, unit, memory, sentOK, insert_failed, budget>>

\* run() entering the loop whatever the startup send returned
StartupCheckIgnored(success) == "loop"

\* run(): the startup send returns; False ends run, True enters the loop
StartupCheck(success) == IF success THEN "loop" ELSE "returned"

StartupReturns ==
    /\ pc = "startup"
    /\ \E success \in BOOLEAN :
        /\ pc' = StartupCheck(success)
        /\ run' = [run EXCEPT !.startup_ok = IF success THEN "True" ELSE "False", !.looped = (pc' = "loop")]
    /\ UNCHANGED <<env, unit, memory, store, budget>>

\* check_all_repositories from its first line to the first gather
BeginCycle ==
    /\ pc = "loop"
    /\ cycles < MaxCycles
    /\ cycles' = cycles + 1
    /\ check_minutes' = CheckMinutes(config.check_interval, config.check_buffer_minutes)
    /\ i' = 0
    /\ new_issues_count' = 0
    /\ tasks' = StartBatch(0)
    /\ batches' = <<Len(Batch(0))>>
    /\ delays' = 0
    /\ fetchLog' = FetchCalls(0, check_minutes')
    /\ outcomes' = <<>>
    /\ returned' = None
    /\ pc' = "gather"
    /\ run' = [run EXCEPT !.fetched = TRUE]
    /\ UNCHANGED <<env, unit, sleepSecs, store, restarts, faults>>

\* get_recent_issues returns to check_repository, which runs to its next await
FetchReturns(k) ==
    /\ pc = "gather"
    /\ tasks[k].pc = "fetch"
    /\ \E res \in FetchResults(env.ISSUES, tasks[k].repository) :
        LET t == tasks[k]
            issues == [j \in 1..Len(res) |-> [id |-> res[j], repository |-> t.repository]]
            t1 == [t EXCEPT !.recent_issues = issues,
                            !.fetched = res,
                            !.pre = {id \in IssueIds : is_issue_tracked(db, id, t.repository)}]
            t2 == ResumeLoop(t1, db)
        IN  /\ tasks' = [tasks EXCEPT ![k] = t2]
            /\ run' = [run EXCEPT !.notified = @ \/ (t2.pc = "send")]
    /\ UNCHANGED <<env, unit, pc, check_minutes, i, new_issues_count, returned, sleepSecs,
                   batches, delays, fetchLog, outcomes, store, budget>>

\* the same stretch with no delay once the last issue has been handled
AfterSendLastUndelayed(t, success, insert) ==
    LET u == [t EXCEPT !.recent_issues = Tail(@),
                       !.oks = IF success THEN @ + 1 ELSE @,
                       !.new_count = IF success THEN @ + 1 ELSE @]
    IN  IF u.recent_issues = <<>>
        THEN [u EXCEPT !.pc = "done", !.result = u.new_count]
        ELSE [u EXCEPT !.pc = "sleep"]

\* check_repository after send_message returned: if success, add_issue and count;
\* then the await of the notification delay.  insert: what the INSERT did:
\* "ok", "swallowed" (execute raised, logged), "raised" (connect raised, not caught there)
AfterSend(t, success, insert) ==
    LET u == [t EXCEPT !.recent_issues = Tail(@)]
    IN  IF ~success THEN [u EXCEPT !.pc = "sleep"]
        ELSE IF insert = "raised" THEN Raise([u EXCEPT !.oks = @ + 1])
        ELSE [u EXCEPT !.pc = "sleep", !.oks = @ + 1, !.new_count = @ + 1]

\* the same with add_issue called whatever the send returned
StoreAfterSendAlways(d, issue, success, insert) ==
    IF insert = "ok" THEN add_issue(d, issue) ELSE d

\* the table after that stretch: add_issue only under if success
StoreAfterSend(d, issue, success, insert) ==
    IF success /\ insert = "ok" THEN add_issue(d, issue) ELSE d

Count(bag, key) == IF key \in DOMAIN bag THEN bag[key] ELSE 0
Plus(bag, key) == [x \in DOMAIN bag \cup {key} |-> Count(bag, x) + (IF x = key THEN 1 ELSE 0)]

SendReturns(k) ==
    /\ pc = "gather"
    /\ tasks[k].pc = "send"
    /\ \E success \in BOOLEAN, insert \in {"ok", "swallowed", "raised"} :
        LET t == tasks[k]
            issue == Head(t.recent_issues)
            t1 == AfterSend(t, success, insert)
        IN  /\ insert # "ok" => success /\ faults < MaxFaults
            /\ faults' = IF insert # "ok" THEN faults + 1 ELSE faults
            /\ insert_failed' = (insert_failed \/ insert # "ok")
            /\ db' = StoreAfterSend(db, issue, success, insert)
            /\ sentOK' = IF success THEN Plus(sentOK, Key(issue)) ELSE sentOK
            /\ tasks' = [tasks EXCEPT ![k] =
                            [t1 EXCEPT !.created = @ + Rows(db', Key(issue))
                                                     - Rows(db, Key(issue))]]
            /\ run' = [run EXCEPT !.wrote = @ \/ success]
    /\ UNCHANGED <<env, unit, pc, check_minutes, i, new_issues_count, returned, sleepSecs,
                   batches, delays, fetchLog, outcomes, cycles, restarts>>

\* the notification delay is over: the for loop goes on
DelayDone(k) ==
    /\ pc = "gather"
    /\ tasks[k].pc = "sleep"
    /\ LET t2 == ResumeLoop(tasks[k], db)
       IN  /\ tasks' = [tasks EXCEPT ![k] = t2]
           /\ run' = [run EXCEPT !.notified = @ \/ (t2.pc = "send")]
    /\ UNCHANGED <<env, unit, pc, check_minutes, i, new_issues_count, returned, sleepSecs,
                   batches, delays, fetchLog, outcomes, store, budget>>

\* a statement of check_repository raises when the task resumes: the awaited fetch,
\* or is_issue_tracked / notify_new_issue for an issue the loop has still to take
TaskRaises(k) ==
    /\ pc = "gather"
    /\ faults < MaxFaults
    /\ \/ tasks[k].pc = "fetch"
       \/ tasks[k].pc = "sleep" /\ tasks[k].recent_issues # <<>>
    /\ tasks' = [tasks EXCEPT ![k] = Raise(tasks[k])]
    /\ faults' = faults + 1
    /\ UNCHANGED <<env, unit, pc, check_minutes, i, new_issues_count, returned, sleepSecs,
                   batches, delays, fetchLog, outcomes, store, run, cycles, restarts>>

\* what a finished task leaves in the history of the cycle
Outcome(t) ==
    [repository |-> t.repository, raised |-> t.raised, oks |-> t.oks, result |-> t.result]

\* the sum counting the repositories that found something, not their issues
AddResultsPerTask(count, ts) ==
    count + SumSeq([k \in DOMAIN ts |-> IF ts[k].result > 0 THEN 1 ELSE 0])

\* for result in batch_results: an int is added (every result here is an int)
AddResults(count, ts) == count + SumSeq([k \in DOMAIN ts |-> ts[k].result])

\* the same test with <=: a delay after the last full batch too
MoreBatchesInclusive(start) == start + batch_size <= Len(config.repositories)

\* if i + batch_size < len(self.config.repositories)
MoreBatches(start) == start + batch_size < Len(config.repositories)

\* the sleep shortened by the time the cycle took
IntervalSleepMinusElapsed(c) == c.check_interval - 1

\* await asyncio.sleep(self.config.check_interval)
IntervalSleep(c) == c.check_interval

\* gather returns: results are summed; then the inter-batch sleep, or the cycle
\* returns and run sleeps for check_interval
\* a gather that returns as soon as one task is done
GatheredFirst(ts) == \E k \in DOMAIN ts : ts[k].pc = "done"

\* await asyncio.gather(*tasks, return_exceptions=True): every task is done
Gathered(ts) == \A k \in DOMAIN ts : ts[k].pc = "done"

GatherDone ==
    /\ pc = "gather"
    /\ Gathered(tasks)
    /\ new_issues_count' = AddResults(new_issues_count, tasks)
    /\ outcomes' = outcomes \o [k \in DOMAIN tasks |-> Outcome(tasks[k])]
    /\ tasks' = <<>>
    /\ IF MoreBatches(i)
       THEN /\ pc' = "batch_delay"
            /\ delays' = delays + 1
            /\ UNCHANGED <<returned, sleepSecs>>
       ELSE /\ pc' = "sleep"
            /\ returned' = new_issues_count'
            /\ sleepSecs' = IntervalSleep(config)
            /\ delays' = delays
    /\ UNCHANGED <<env, unit, check_minutes, i, batches, fetchLog, store, run, budget>>

\* the inter-batch sleep is over: the next batch is formed and gathered
NextBatch ==
    /\ pc = "batch_delay"
    /\ i' = i + batch_size
    /\ tasks' = StartBatch(i')
    /\ batches' = Append(batches, Len(Batch(i')))
    /\ fetchLog' = fetchLog \o FetchCalls(i', check_minutes)
    /\ pc' = "gather"
    /\ UNCHANGED <<env, unit, check_minutes, new_issues_count, returned, sleepSecs,
                   delays, outcomes, store, run, budget>>

\* asyncio.sleep(check_interval) is over: while True goes round
SleepDone ==
    /\ pc = "sleep"
    /\ pc' = "loop"
    /\ sleepSecs' = 0
    /\ UNCHANGED <<env, unit, tasks, check_minutes, i, new_issues_count, returned,
                   batches, delays, fetchLog, outcomes, store, run, budget>>

\* an unexpected exception leaves the try block of run while no task is in flight:
\* at the call of check_all_repositories or after a gather.  The except branch
\* sends the error message
CycleRaises ==
    /\ \/ pc = "loop" /\ cycles < MaxCycles
       \/ pc = "gather" /\ \A k \in DOMAIN tasks : tasks[k].pc = "done"
    /\ faults < MaxFaults
    /\ faults' = faults + 1
    /\ cycles' = IF pc = "loop" THEN cycles + 1 ELSE cycles
    /\ pc' = "error_send"
    /\ run' = Caught(run)
    /\ tasks' = <<>>
    /\ UNCHANGED <<env, unit, check_minutes, i, new_issues_count, returned, sleepSecs,
                   batches, delays, fetchLog, outcomes, store, restarts>>

\* the except branch giving up when the error message cannot be sent
AfterErrorSendChecked(success) == IF success THEN "cooldown" ELSE "returned"

\* the error send returns, its result unused; asyncio.sleep(120)
AfterErrorSend(success) == "cooldown"

ErrorSendReturns ==
    /\ pc = "error_send"
    /\ \E success \in BOOLEAN : pc' = AfterErrorSend(success)
    /\ sleepSecs' = IF pc' = "cooldown" THEN COOLDOWN ELSE 0
    /\ UNCHANGED <<env, unit, tasks, check_minutes, i, new_issues_count, returned,
                   batches, delays, fetchLog, outcomes, store, run, budget>>

\* the cooldown is over: while True goes round
CooldownDone ==
    /\ pc = "cooldown"
    /\ pc' = "loop"
    /\ sleepSecs' = 0
    /\ UNCHANGED <<env, unit, tasks, check_minutes, i, new_issues_count, returned,
                   batches, delays, fetchLog, outcomes, store, run, budget>>

\* the process ends (killed, or after main returned) and is started again:
\* memory is lost, the database file is kept
Restart ==
    /\ pc # "main"
    /\ restarts < MaxRestarts
    /\ restarts' = restarts + 1
    /\ pc' = "main"
    /\ tasks' = <<>>
    /\ check_minutes' = 0
    /\ i' = 0
    /\ new_issues_count' = 0
    /\ returned' = None
    /\ sleepSecs' = 0
    /\ batches' = <<>>
    /\ delays' = 0
    /\ fetchLog' = <<>>
    /\ outcomes' = <<>>
    /\ run' = NoRun
    /\ UNCHANGED <<env, unit, store, cycles, faults>>

\* where run() is alive: awaiting the startup send, in the try block, in the
\* except branch
Running == {"startup", "loop", "gather", "batch_delay", "sleep", "error_send", "cooldown"}

\* where the try block of the loop is: except KeyboardInterrupt can catch there
InTry == {"loop", "gather", "batch_delay", "sleep"}

\* KeyboardInterrupt (SIGINT) while run() is alive.  Raised in the try block it may
\* be caught by except KeyboardInterrupt (break, run returns); delivered to the
\* event loop, or as the cancellation of the main task, it is no Exception and
\* leaves run() uncaught.  Either way run() is over, the tasks of the batch are
\* cancelled, the locals of the cycle are gone and nothing runs after it.
\* the interrupt handled like any exception when the handler does not catch it
AfterInterruptAsError(how) == IF how = "break" THEN "stopped" ELSE "error_send"

\* except KeyboardInterrupt: break; uncaught, run() is left: no statement of run follows
AfterInterrupt(how) == "stopped"

Interrupt ==
    /\ pc \in Running
    /\ \E how \in {"break", "uncaught"} :
        /\ how = "break" => pc \in InTry
        /\ run' = [run EXCEPT !.interrupted = how]
        /\ pc' = AfterInterrupt(how)
    /\ tasks' = <<>>
    /\ check_minutes' = 0
    /\ i' = 0
    /\ new_issues_count' = 0
    /\ returned' = None
    /\ sleepSecs' = 0
    /\ batches' = <<>>
    /\ delays' = 0
    /\ fetchLog' = <<>>
    /\ outcomes' = <<>>
    /\ UNCHANGED <<env, unit, store, budget>>

Next ==
    \/ main
    \/ StartupReturns
    \/ BeginCycle
    \/ \E k \in DOMAIN tasks : FetchReturns(k)
    \/ \E k \in DOMAIN tasks : SendReturns(k)
    \/ \E k \in DOMAIN tasks : DelayDone(k)
    \/ \E k \in DOMAIN tasks : TaskRaises(k)
    \/ GatherDone
    \/ NextBatch
    \/ SleepDone
    \/ CycleRaises
    \/ ErrorSendReturns
    \/ CooldownDone
    \/ Interrupt
    \/ Restart

Spec == Init /\ [][Next]_vars

\* the steps the event loop takes by itself: a ready coroutine is resumed, a timer
\* fires, a request returns (every request has a timeout)
Program ==
    \/ main
    \/ StartupReturns
    \/ BeginCycle
    \/ \E k \in DOMAIN tasks : FetchReturns(k)
    \/ \E k \in DOMAIN tasks : SendReturns(k)
    \/ \E k \in DOMAIN tasks : DelayDone(k)
    \/ GatherDone
    \/ NextBatch
    \/ SleepDone
    \/ ErrorSendReturns
    \/ CooldownDone

\* the process left alone: exceptions may be raised, no interrupt, no restart
LiveNext ==
    \/ Program
    \/ \E k \in DOMAIN tasks : TaskRaises(k)
    \/ CycleRaises

LiveSpec == Init /\ [][LiveNext]_vars /\ WF_vars(Program)

---------------------------------------------------------------------------
(* One call of GitHubAPI.get_recent_issues *)

Windows == {5, 7, 11}

\* a call about to be made, and the response its request will end in
CallsFor(repository) ==
    {[pc |-> "call", repository |-> repository, since_minutes |-> w, response |-> resp,
      requests |-> 0, raised |-> FALSE, issues |-> <<>>] :
        w \in Windows, resp \in Responses(TwoAndOne, repository)}

Calls == UNION {CallsFor(repository) : repository \in Repos}

ClientInit ==
    /\ InitWith({e \in WindowEnvs : e.CHECK_INTERVAL = 180 /\ e.CHECK_BUFFER_MINUTES = 2})
    /\ fmt_issue = NoIssue /\ message = NoMessage
    /\ http \in Calls
    /\ clock = NoClock /\ intake = NoPass

\* lines 172-186: the query is built and session.get is awaited
SessionGet ==
    /\ http.pc = "call"
    /\ http' = [http EXCEPT !.pc = "awaiting", !.requests = @ + 1]
    /\ UNCHANGED <<env, pc, memory, store, run, budget, fmt_issue, message, clock, intake>>

\* lines 187-209: the request has ended and get_recent_issues returns or raises
RequestEnds ==
    /\ http.pc = "awaiting"
    /\ LET out == get_recent_issues(http.response)
       IN  http' = [http EXCEPT !.pc = IF out.raised THEN "raised" ELSE "returned",
                                !.raised = out.raised, !.issues = out.issues]
    /\ UNCHANGED <<env, pc, memory, store, run, budget, fmt_issue, message, clock, intake>>

ClientSpec == ClientInit /\ [][SessionGet \/ RequestEnds]_vars

---------------------------------------------------------------------------
(* The run-loop on a time line *)

MaxAge == 20               \* oldest update of an issue, in half minutes before the start
Elapsed == {0, 1, 30}      \* seconds a cycle can take

\* the loop is entered at time 0; an issue was last updated at updated_at
Clocks ==
    [pc : {"loop"}, now : {0}, fetches : {<<>>}, updated_at : {0 - 30 * k : k \in 0..MaxAge}]

ScheduleInit ==
    /\ InitWith(WindowEnvs)
    /\ fmt_issue = NoIssue /\ message = NoMessage /\ http = NoCall /\ intake = NoPass
    /\ clock \in Clocks

\* since_time = datetime.utcnow() - timedelta(minutes=since_minutes), in seconds
since_time(now, since_minutes) == now - 60 * since_minutes

\* check_all_repositories is called and its fetches are issued
CycleFetches ==
    /\ clock.pc = "loop"
    /\ Len(clock.fetches) < MaxCycles
    /\ LET w == CheckMinutes(config.check_interval, config.check_buffer_minutes)
       IN  clock' = [clock EXCEPT !.pc = "cycle",
                        !.fetches = Append(@, [at |-> clock.now,
                                               since |-> since_time(clock.now, w)])]
    /\ UNCHANGED <<env, pc, memory, store, run, budget, fmt_issue, message, http, intake>>

\* the cycle returns after some time
CycleReturns ==
    /\ clock.pc = "cycle"
    /\ \E d \in Elapsed : clock' = [clock EXCEPT !.pc = "sleep", !.now = @ + d]
    /\ UNCHANGED <<env, pc, memory, store, run, budget, fmt_issue, message, http, intake>>

\* await asyncio.sleep(self.config.check_interval): no wait when it is not positive
IntervalOver ==
    /\ clock.pc = "sleep"
    /\ clock' = [clock EXCEPT !.pc = "loop", !.now = @ + Max(0, IntervalSleep(config))]
    /\ UNCHANGED <<env, pc, memory, store, run, budget, fmt_issue, message, http, intake>>

\* the loop on schedule: cycle, sleep of the interval, cycle
ScheduleSpec == ScheduleInit /\ [][CycleFetches \/ CycleReturns \/ IntervalOver]_vars

---------------------------------------------------------------------------
(* TelegramBot.format_issue_notification *)

\* A string is the sequence of its characters.
TITLE_MAX == 80      \* if len(title) > 80
TITLE_KEEP == 77     \* title[:77] + "..."
LABEL_MAX == 20      \* if len(safe) > 20
LABEL_KEEP == 17     \* safe[:17] + "..."
LABELS_SHOWN == 6    \* issue.labels[:6]

AMP == <<"&", "a", "m", "p", ";">>
LT == <<"&", "l", "t", ";">>
GT == <<"&", "g", "t", ";">>
ELLIPSIS == <<".", ".", ".">>

\* str.replace(old, new) for a one-character old: left to right, every occurrence
RECURSIVE replace(_, _, _)
replace(str, old, new) ==
    IF str = <<>> THEN <<>>
    ELSE (IF Head(str) = old THEN new ELSE <<Head(str)>>) \o replace(Tail(str), old, new)

\* .replace('&', '&amp;').replace('<', '&lt;').replace('>', '&gt;')
escape(str) == replace(replace(replace(str, "&", AMP), "<", LT), ">", GT)

\* str[:n]
Slice(str, n) == SubSeq(str, 1, IF n < Len(str) THEN n ELSE Len(str))

\* if len(s) > max: s = s[:keep] + "..."
Truncate(str, max, keep) ==
    IF Len(str) > max THEN Slice(str, keep) \o ELLIPSIS ELSE str

\* every label rendered
ShownAll(labels) == labels

\* issue.labels[:6]
Shown(labels) == Slice(labels, LABELS_SHOWN)

\* the title line and the texts inside the <code> elements of the labels line
format_issue_notification(iss) ==
    [ set    |-> TRUE,
      title  |-> Truncate(escape(iss.title), TITLE_MAX, TITLE_KEEP),
      labels |-> [k \in DOMAIN Shown(iss.labels) |->
                     Truncate(escape(Shown(iss.labels)[k]), LABEL_MAX, LABEL_KEEP)] ]

\* the characters user text is drawn from: the three of markup, a letter, and the
\* character that ends an entity
Alphabet == {"&", "<", ">", "a", ";"}
Pad(n) == [k \in 1..n |-> "a"]
Tails == SeqsUpTo(Alphabet, MaxTail)

\* titles: free characters around a run of letters, lengths about 77, 80 and 90
TitlePads == {0} \cup 70..80 \cup {90}
Titles == {h \o Pad(n) \o t : h \in SeqsUpTo(Alphabet, 1), n \in TitlePads, t \in Tails}

\* label names: a run of letters and free characters, lengths about 17 and 20
LabelPads == {0} \cup 11..20
LabelNames == {Pad(n) \o t : n \in LabelPads, t \in Tails}

\* a list of n labels, all different: the k-th is name after k letters
LabelList(n, name) == [k \in 1..n |-> Pad(k) \o name]

Issues ==
    [title : Titles, labels : {<<>>}]
        \cup [title : {<<"a">>},
              labels : {LabelList(n, name) : n \in 0..MaxLabels, name \in LabelNames}]
        \cup [title : {Pad(90)}, labels : {LabelList(MaxLabels, <<>>)}]

FormatInit ==
    /\ InitWith({e \in WindowEnvs : e.CHECK_INTERVAL = 180 /\ e.CHECK_BUFFER_MINUTES = 2})
    /\ fmt_issue \in Issues
    /\ message = NoMessage
    /\ http = NoCall /\ clock = NoClock /\ intake = NoPass

\* notify_new_issue: message = self.telegram.format_issue_notification(issue)
Format ==
    /\ ~message.set
    /\ message' = format_issue_notification(fmt_issue)
    /\ UNCHANGED <<env, pc, memory, store, run, budget, fmt_issue, http, clock, intake>>

\* format_issue_notification applied to every issue of Issues
FormatSpec == FormatInit /\ [][Format]_vars

---------------------------------------------------------------------------
(* GitHubAPI._parse_issue and one call of check_repository *)

MaxEntries == 2            \* entries of a labels array drawn freely

\* A JSON value is a record of its kind and, for a string, its characters.
JsonAbsent == [kind |-> "absent", value |-> <<>>]     \* the key is not in the object
JsonNull == [kind |-> "null", value |-> <<>>]         \* null, None once loaded
JsonNumber == [kind |-> "number", value |-> <<>>]     \* a value that is not a string
JsonStr(str) == [kind |-> "str", value |-> str]

\* what a label object can hold under 'name'
Names == {JsonAbsent, JsonNull, JsonNumber, JsonStr(<<"a">>)}

\* an entry of a labels array: an object, or a value that is not an object
LabelEntries == [dict : {TRUE}, name : Names] \cup [dict : {FALSE}, name : {JsonAbsent}]

\* arrays of well-formed labels ending in one entry drawn from Names, the last
\* entry standing at index LABELS_SHOWN and at index LABELS_SHOWN + 1
LongArrays ==
    {[k \in 1..n |-> IF k < n THEN [dict |-> TRUE, name |-> JsonStr(Pad(k))]
                              ELSE [dict |-> TRUE, name |-> x]] :
        n \in {LABELS_SHOWN, LABELS_SHOWN + 1}, x \in Names}

\* what an issue object can hold under 'labels': no key, null, an array
LabelFields ==
    [kind : {"absent", "null"}, entries : {<<>>}]
        \cup [kind : {"array"}, entries : SeqsUpTo(LabelEntries, MaxEntries) \cup LongArrays]

\* the JSON array of a 200 response: one or two issues, newest first, ids different
IssuesData ==
    {<<[id |-> 1, labels |-> f]>> : f \in LabelFields}
        \cup {<<[id |-> 1, labels |-> f], [id |-> 2, labels |-> g]>> :
                f \in LabelFields, g \in LabelFields}

\* lbl.get('name', ''): the value under the key, '' when the key is missing
get_name(lbl) == IF lbl.name.kind = "absent" THEN JsonStr(<<>>) ELSE lbl.name

\* [lbl.get('name', '') for lbl in issue_data.get('labels', []) if isinstance(lbl, dict)]
\* and labels = [] when that raises, as iterating None does
parse_labels(field) ==
    IF field.kind # "array" THEN <<>>
    ELSE LET dicts == SelectSeq(field.entries, LAMBDA lbl : lbl.dict)
         IN  [k \in DOMAIN dicts |-> get_name(dicts[k])]

\* Issue(id=..., repository=repository, labels=labels); the title is a fixed letter
parse_issue(issue_data, repository) ==
    [id |-> issue_data.id, repository |-> repository, title |-> <<"a">>,
     labels |-> parse_labels(issue_data.labels)]

\* name.replace(...) for name in issue.labels[:6]: AttributeError unless a str
FormatRaises(iss) == \E k \in DOMAIN Shown(iss.labels) : Shown(iss.labels)[k].kind # "str"

\* the message of an Issue whose shown label names are all strings
Formatted(iss) ==
    format_issue_notification(
        [title |-> iss.title,
         labels |-> [k \in DOMAIN Shown(iss.labels) |-> Shown(iss.labels)[k].value]])

\* a call of check_repository("a", since_minutes) whose fetch got a 200 response;
\* the table holds no row of this repository when the call starts
Passes ==
    {[pc |-> "call", repository |-> "a", issues_data |-> data, recent_issues |-> <<>>,
      j |-> 0, done |-> <<>>, recorded |-> {}, new_count |-> 0, result |-> None,
      caught |-> FALSE] : data \in IssuesData}

PassInit ==
    /\ InitWith({e \in WindowEnvs : e.CHECK_INTERVAL = 180 /\ e.CHECK_BUFFER_MINUTES = 2})
    /\ fmt_issue = NoIssue /\ message = NoMessage
    /\ http = NoCall /\ clock = NoClock
    /\ intake \in Passes

\* recent_issues = await self.github.get_recent_issues(repository, since_minutes):
\* every entry of the array goes through _parse_issue
PassFetches ==
    /\ intake.pc = "call"
    /\ intake' = [intake EXCEPT
                    !.pc = "loop", !.j = 1,
                    !.recent_issues = [k \in DOMAIN intake.issues_data |->
                        parse_issue(intake.issues_data[k], intake.repository)]]
    /\ UNCHANGED <<env, pc, memory, store, run, budget, fmt_issue, message, http, clock>>

\* one turn of "for issue in recent_issues": the tracked test, notify_new_issue
\* (format, then send), add_issue and the count on success, the pacing sleep; an
\* exception of the format is caught by the except clause, which returns 0
PassNotifies ==
    /\ intake.pc = "loop"
    /\ intake.j <= Len(intake.recent_issues)
    /\ LET iss == intake.recent_issues[intake.j]
       IN  IF iss.id \in intake.recorded
           THEN intake' = [intake EXCEPT !.j = @ + 1]
           ELSE IF FormatRaises(iss)
           THEN intake' = [intake EXCEPT !.pc = "returned", !.result = 0, !.caught = TRUE]
           ELSE \E success \in BOOLEAN :
                    intake' = [intake EXCEPT
                        !.j = @ + 1,
                        !.done = Append(@, [id |-> iss.id, success |-> success,
                                            labels |-> Formatted(iss).labels]),
                        !.recorded = IF success THEN @ \cup {iss.id} ELSE @,
                        !.new_count = IF success THEN @ + 1 ELSE @]
    /\ UNCHANGED <<env, pc, memory, store, run, budget, fmt_issue, message, http, clock>>

\* return new_count
PassReturns ==
    /\ intake.pc = "loop"
    /\ intake.j > Len(intake.recent_issues)
    /\ intake' = [intake EXCEPT !.pc = "returned", !.result = intake.new_count]
    /\ UNCHANGED <<env, pc, memory, store, run, budget, fmt_issue, message, http, clock>>

\* check_repository applied to every array of IssuesData
PassSpec == PassInit /\ [][PassFetches \/ PassNotifies \/ PassReturns]_vars

---------------------------------------------------------------------------
(* Claims *)

\* a send for issue key was issued in this step by task k
SendIssued(k, key) ==
    /\ k \in DOMAIN tasks' /\ tasks'[k].pc = "send"
    /\ Key(Head(tasks'[k].recent_issues)) = key
    /\ ~(k \in DOMAIN tasks /\ tasks[k].pc = "send" /\ tasks'[k] = tasks[k])
    /\ pc = "gather" /\ pc' = "gather"

\* C1: with every INSERT succeeding, over any cycles and restarts no (issue id,
\* repository) pair is successfully notified more than once.
C1_NotifiedAtMostOnce ==
    ~insert_failed => \A key \in Keys : Count(sentOK, key) <= 1

\* C1, second half: once a row for the pair exists, no send for the pair is issued.
C1_NoSendOnceRecorded ==
    [][\A key \in Keys : \A k \in 1..MaxLong :
          SendIssued(k, key) => ~is_issue_tracked(db, key.id, key.repository)]_vars

RowsNotified == \A key \in DOMAIN db : Count(sentOK, key) > 0

\* the send of task k returned False in this step
SendFailed(k) ==
    /\ k \in DOMAIN tasks /\ k \in DOMAIN tasks'
    /\ tasks[k].pc = "send" /\ tasks'[k].pc # "send" /\ tasks'[k].oks = tasks[k].oks

RowsKept == \A key \in DOMAIN db : key \in DOMAIN db' /\ db'[key] >= db[key]

\* C2: every row of the table belongs to a key for which a send returned success;
\* a send that returns failure leaves the table unchanged; no step changes or
\* removes a row (the tracked keys only grow).
C2_StoreOnlyOnSuccess ==
    /\ []RowsNotified
    /\ [][((\E k \in 1..MaxLong : SendFailed(k)) => db' = db) /\ RowsKept]_vars

\* a row exists, and a send has returned failure in the task that is still running
C2_Witness ==
    /\ db # <<>>
    /\ \E k \in DOMAIN tasks :
        /\ tasks[k].pc = "sleep"
        /\ tasks[k].oks > 0 /\ Len(tasks[k].notified) > tasks[k].oks

Range(s) == {s[k] : k \in DOMAIN s}

\* C3: in one pass over a repository (no exception, every send succeeding, every
\* INSERT succeeding) the issues notified are exactly the returned issues that were
\* not tracked, none twice, and each notification created exactly one row.
C3_DedupPerPass ==
    \A k \in DOMAIN tasks :
        LET t == tasks[k]
        IN  (t.pc = "done" /\ ~t.raised /\ t.oks = Len(t.notified) /\ ~insert_failed) =>
                /\ Range(t.notified) = Range(t.fetched) \ t.pre
                /\ Len(t.notified) = Cardinality(Range(t.notified))
                /\ t.created = Len(t.notified)

ConfiguredKeys ==
    [id : IssueIds, repository : Range(config.repositories)]

\* C4: add_issue twice with one key leaves the table that one call leaves, with
\* exactly one row for the key, and is_issue_tracked is true after either call;
\* the table never holds two rows with one key.
C4_InsertIdempotent ==
    /\ \A key \in DOMAIN db : db[key] = 1
    /\ \A key \in ConfiguredKeys :
        LET once == add_issue(db, key)
            twice == add_issue(once, key)
        IN  /\ twice = once
            /\ Rows(once, key) = 1
            /\ is_issue_tracked(once, key.id, key.repository)
            /\ is_issue_tracked(twice, key.id, key.repository)

\* add_issue has been called for a key that already had its row: the call created
\* none, and the key has one row
C4_Witness ==
    /\ ~insert_failed
    /\ \E k \in DOMAIN tasks :
        /\ tasks[k].oks > tasks[k].created
        /\ \A id \in Range(tasks[k].notified) :
              Rows(db, [id |-> id, repository |-> tasks[k].repository]) = 1

\* an exception was raised in task k in this step
TaskRaised(k) ==
    /\ k \in DOMAIN tasks /\ k \in DOMAIN tasks'
    /\ ~tasks[k].raised /\ tasks'[k].raised

\* what the repositories that did not fail notified in the cycle
OthersNotified ==
    SumSeq([k \in DOMAIN outcomes |-> IF outcomes[k].raised THEN 0 ELSE outcomes[k].oks])

CycleReturned == pc = "sleep"

\* C5: an exception raised while one repository is processed leaves the gather and
\* the other tasks as they are; a cycle that returns has fetched and processed every
\* repository of the list, and returns the sum of what the repositories that did
\* not fail notified (the failing ones count zero).
C5_FaultIsolation ==
    /\ [](CycleReturned =>
            /\ [k \in DOMAIN outcomes |-> outcomes[k].repository] = config.repositories
            /\ [k \in DOMAIN fetchLog |-> fetchLog[k].repository] = config.repositories
            /\ returned = OthersNotified)
    /\ [][\A k \in 1..MaxLong : TaskRaised(k) =>
            /\ pc' = "gather"
            /\ \A j \in DOMAIN tasks : j # k => tasks'[j] = tasks[j]]_vars

\* a cycle returned 1 although one of two repositories raised
C5_Witness ==
    /\ CycleReturned
    /\ returned = 1
    /\ Len(outcomes) = 2
    /\ \E k \in DOMAIN outcomes : outcomes[k].raised
    /\ \E k \in DOMAIN outcomes : ~outcomes[k].raised /\ outcomes[k].oks = 1

Ceil(n, b) == (n + b - 1) \div b

\* C6: with n repositories and BATCH_SIZE b >= 1 a cycle forms ceil(n/b) batches of
\* consecutive repositories in list order, all of size b but possibly the last, and
\* starts the inter-batch delay ceil(n/b) - 1 times: once between two consecutive
\* batches, never after the last.
C6_BatchPacing ==
    LET n == Len(config.repositories)
        b == config.batch_size
        nb == Ceil(n, b)
    IN  b >= 1 =>
          /\ pc = "gather" => delays = Len(batches) - 1
          /\ pc = "batch_delay" => delays = Len(batches) /\ Len(batches) < nb
          /\ pc \in {"gather", "batch_delay"} =>
                /\ Len(batches) <= nb
                /\ \A j \in 1..Len(batches) : j < nb => batches[j] = b
          /\ CycleReturned =>
                /\ Len(batches) = nb
                /\ \A j \in 1..(nb - 1) : batches[j] = b
                /\ batches[nb] = n - (nb - 1) * b
                /\ delays = nb - 1
                /\ [k \in DOMAIN fetchLog |-> fetchLog[k].repository] = config.repositories

\* 7 repositories, batch size 3: batches of 3, 3, 1 and two delays
C6_Witness ==
    /\ CycleReturned
    /\ Len(config.repositories) = 7 /\ config.batch_size = 3
    /\ batches = <<3, 3, 1>>
    /\ delays = 2

\* C7 as stated: the window is max(5, interval / 60 + buffer) minutes, the division
\* exact (both sides in seconds).
C7_WindowExact ==
    \A k \in DOMAIN fetchLog :
        60 * fetchLog[k].since_minutes
            = Max(300, config.check_interval + 60 * config.check_buffer_minutes)

\* whole minutes of an interval in seconds, the fraction dropped (toward zero)
WholeMinutes(seconds, q) ==
    IF seconds >= 0 THEN 60 * q <= seconds /\ seconds < 60 * q + 60
    ELSE 60 * q - 60 < seconds /\ seconds <= 60 * q

\* C7, amended: the window passed to every fetch of a cycle is
\* max(5, m + buffer) minutes, m the whole minutes in the interval (the fraction of
\* a minute is dropped); 180 s / 2 gives 5, 60 s / 2 gives 5, 600 s / 1 gives 11;
\* it is never below 5.
C7_WindowWholeMinutes ==
    fetchLog # <<>> =>
        LET ci == env.CHECK_INTERVAL
            cb == env.CHECK_BUFFER_MINUTES
            w == fetchLog[1].since_minutes
        IN  /\ \A k \in DOMAIN fetchLog : fetchLog[k].since_minutes = w
            /\ \E q \in -20..20 : WholeMinutes(ci, q) /\ w = Max(5, q + cb)
            /\ w >= 5
            /\ w = check_minutes
            /\ (ci = 180 /\ cb = 2) => w = 5
            /\ (ci = 60 /\ cb = 2) => w = 5
            /\ (ci = 600 /\ cb = 1) => w = 11

\* a fetch was issued with a window above the floor from an interval that is no
\* whole number of minutes
C7_Witness ==
    /\ fetchLog # <<>>
    /\ config.check_interval = 200 /\ config.check_buffer_minutes = 4
    /\ fetchLog[1].since_minutes = 7

\* C8: with an empty bot token, an empty chat id or an empty repository list, main
\* returns before the tracker is built: no startup announcement, no fetch, no
\* notification, no error message is ever issued and the table is never written.
C8_StartupGate ==
    (env.TELEGRAM_BOT_TOKEN = "" \/ env.TELEGRAM_CHAT_ID = "" \/ env.REPOSITORIES = <<>>) =>
        /\ pc \in {"main", "exited"}
        /\ run = NoRun
        /\ tasks = <<>> /\ fetchLog = <<>>
        /\ db = <<>> /\ sentOK = <<>>

\* main has returned at the gate, the token set and the chat id empty
C8_Witness ==
    /\ pc = "exited"
    /\ env.TELEGRAM_BOT_TOKEN # "" /\ env.TELEGRAM_CHAT_ID = "" /\ env.REPOSITORIES # <<>>

\* C9: a run sends one startup announcement, before any cycle; if that send
\* returns failure, run returns without entering the loop: no fetch, no item
\* notification, no table write and no error message in that run.
C9_StartupAnnouncement ==
    /\ run.startup_sends <= 1
    /\ (run.looped \/ run.fetched \/ run.notified \/ run.wrote \/ run.errors > 0
            \/ tasks # <<>> \/ pc \in {"loop", "gather", "batch_delay", "sleep"}) =>
          run.startup_sends = 1 /\ run.startup_ok = "True"
    /\ run.startup_ok = "False" =>
          /\ pc = "returned"
          /\ ~run.looped /\ ~run.fetched /\ ~run.notified /\ ~run.wrote
          /\ run.errors = 0 /\ run.error_sends = 0
          /\ tasks = <<>> /\ fetchLog = <<>>

\* the startup send has returned failure and run has returned
C9_Witness ==
    /\ pc = "returned"
    /\ run.startup_sends = 1 /\ run.startup_ok = "False"

\* C10: an exception that leaves a cycle does not end run: one error message is
\* sent for it, whatever that send returns the 120-second sleep follows, and the
\* next cycle starts only from the top of the loop, after that sleep (a restart of
\* the process or an interrupt apart).
C10_Containment ==
    /\ [](/\ run.error_sends = run.errors
          /\ pc = "cooldown" => sleepSecs = 120
          /\ pc \in {"error_send", "cooldown"} => run.errors >= 1 /\ tasks = <<>>)
    /\ [][(restarts' = restarts /\ pc' # "stopped") =>
            /\ run'.errors # run.errors =>
                    pc' = "error_send" /\ run'.errors = run.errors + 1
            /\ pc = "error_send" => pc' = "cooldown"
            /\ pc = "cooldown" => pc' = "loop"
            /\ cycles' # cycles => pc = "loop"]_vars

\* a cycle is running again after an exception and its cooldown
C10_Witness ==
    /\ run.errors = 1 /\ run.error_sends = 1
    /\ pc = "gather"
    /\ sleepSecs = 0

\* an interrupt was delivered in this step
Interrupted == run'.interrupted # "no" /\ run.interrupted = "no"

\* C12: an interrupt delivered while run is alive (in a cycle, in a sleep) ends run:
\* the step sends no error message, takes no cooldown, issues no fetch or
\* notification and writes nothing; from the stopped state no step follows (a
\* restart of the process apart).
C12_InterruptStops ==
    /\ [](pc = "stopped" => tasks = <<>> /\ sleepSecs = 0 /\ run.interrupted # "no")
    /\ [][Interrupted =>
            /\ pc \in Running /\ pc' = "stopped"
            /\ run'.errors = run.errors /\ run'.error_sends = run.error_sends
            /\ tasks' = <<>> /\ fetchLog' = <<>> /\ store' = store]_vars
    /\ [][(pc = "stopped" /\ restarts' = restarts) => vars' = vars]_vars

\* run was interrupted in the middle of a cycle, a notification awaited
C12_Witness ==
    /\ pc = "stopped"
    /\ run.interrupted = "break"
    /\ run.fetched /\ run.notified /\ ~run.wrote
    /\ run.errors = 0

\* C11: once the loop is entered, a cycle that completes is followed by
\* asyncio.sleep(check_interval) with the configured value, whatever the cycle
\* returned, and the sleep by the top of the loop; left alone, run never returns,
\* and every return of a cycle is followed by the next call of
\* check_all_repositories (up to the MaxCycles cycles of the model).
C11_SteadyState ==
    /\ [](pc = "sleep" => sleepSecs = config.check_interval /\ returned # None)
    /\ [][/\ (pc = "gather" /\ pc' \notin {"gather", "batch_delay", "error_send"}) => pc' = "sleep"
          /\ pc = "sleep" => pc' = "loop"
          /\ run.looped => pc' \in Running]_vars
    /\ (pc = "sleep" /\ cycles < MaxCycles) ~> (pc \in {"gather", "error_send"})
    /\ (pc = "loop") ~> (cycles = MaxCycles)

\* a second cycle is running after a sleep that followed a cycle which notified and
\* recorded an issue
C11_Witness ==
    /\ pc = "gather" /\ cycles = MaxCycles
    /\ run.errors = 0 /\ faults = 0
    /\ db # <<>>

\* position j of txt starts one of the three entities, whole
Entity(txt, j) ==
    \E e \in {AMP, LT, GT} :
        j + Len(e) - 1 <= Len(txt) /\ SubSeq(txt, j, j + Len(e) - 1) = e

\* no raw '<' or '>', and every '&' starts a whole entity
MarkupSafe(txt) ==
    \A j \in DOMAIN txt :
        /\ txt[j] \notin {"<", ">"}
        /\ txt[j] = "&" => Entity(txt, j)

\* each character escaped by itself: '&', '<', '>' once, every other one unchanged
RECURSIVE EscapedOnce(_)
EscapedOnce(str) ==
    IF str = <<>> THEN <<>>
    ELSE (CASE Head(str) = "&" -> AMP
            [] Head(str) = "<" -> LT
            [] Head(str) = ">" -> GT
            [] OTHER -> <<Head(str)>>) \o EscapedOnce(Tail(str))

\* the three replace calls escape each character exactly once
C13_EscapeExact ==
    /\ escape(fmt_issue.title) = EscapedOnce(fmt_issue.title)
    /\ \A k \in DOMAIN fmt_issue.labels :
          escape(fmt_issue.labels[k]) = EscapedOnce(fmt_issue.labels[k])
    /\ MarkupSafe(escape(fmt_issue.title))

\* C13: for every title and label name, of any length, the title and the label
\* texts of the message hold no raw '<' or '>' and every '&' in them starts a whole
\* entity; each original '&', '<', '>' is escaped exactly once.
C13_MarkupSafe ==
    message.set =>
        /\ C13_EscapeExact
        /\ MarkupSafe(message.title)
        /\ \A k \in DOMAIN message.labels : MarkupSafe(message.labels[k])

Min(a, b) == IF a < b THEN a ELSE b

Bounded(txt, max) ==
    IF Len(txt) <= max THEN txt ELSE [j \in 1..max |-> IF j <= max - 3 THEN txt[j] ELSE "."]

Success(resp) == resp.kind = "status" /\ resp.status = 200

SendSucceeded(k) ==
    /\ k \in DOMAIN tasks /\ k \in DOMAIN tasks'
    /\ tasks[k].pc = "send" /\ tasks'[k].oks = tasks[k].oks + 1

\* C16: two tasks of one batch over the same repository never both notify one
\* issue: no send returns success for a key whose row another task has written
\* since the send was issued, so a key gets at most one successful notification in
\* a batch and the overlap shows only as an INSERT that is ignored.
C16_NoRace ==
    [][\A k \in DOMAIN tasks :
          SendSucceeded(k) =>
              LET key == Key(Head(tasks[k].recent_issues))
              IN  ~is_issue_tracked(db, key.id, key.repository)]_vars

\* the check_repository tasks that have not finished
InFlight == Cardinality({k \in DOMAIN tasks : tasks[k].pc # "done"})

\* the tasks are those of the batch at i, every repository before i has been
\* fetched and has finished (returned or failed), none after the batch was started
BarrierHolds ==
    /\ pc = "gather" =>
          /\ [k \in DOMAIN tasks |-> tasks[k].repository] = Batch(i)
          /\ Len(outcomes) = i
          /\ Len(fetchLog) = i + Len(tasks)
    /\ pc = "batch_delay" =>
          /\ tasks = <<>>
          /\ Len(outcomes) = i + batch_size /\ Len(fetchLog) = i + batch_size
    /\ \A k \in DOMAIN outcomes : outcomes[k].result # None
    /\ \A k \in DOMAIN fetchLog : fetchLog[k].repository = config.repositories[k]

\* task k issued a send in this step
SendIssuedBy(k) ==
    /\ tasks'[k].pc = "send"
    /\ k \in DOMAIN tasks => tasks[k].pc # "send"

\* a send is issued or returns, or the table is written, only by a task of the
\* batch; fetches are issued only when no task is left
BatchOnly ==
    /\ (store' # store \/ \E k \in DOMAIN tasks' : SendIssuedBy(k)) =>
          /\ pc = "gather"
          /\ \E k \in DOMAIN tasks : tasks'[k] # tasks[k] /\ tasks[k].repository = Batch(i)[k]
    /\ (fetchLog' # fetchLog /\ fetchLog' # <<>>) =>
          /\ InFlight = 0
          /\ pc = "loop" \/ Len(outcomes) = Len(fetchLog)

\* C17 as stated: the barrier, and at most BATCH_SIZE tasks in flight.
C17_BarrierConfigured ==
    /\ [](BarrierHolds /\ (pc = "gather" => InFlight <= config.batch_size))
    /\ [][BatchOnly]_vars

\* C17, amended: within a cycle no fetch, notification or write for a repository of
\* the next batch happens before every task of the batch has finished, and at most
\* max(1, BATCH_SIZE) tasks are in flight.
C17_BatchBarrier ==
    /\ [](BarrierHolds /\ InFlight <= Max(1, config.batch_size) /\ (pc # "gather" => InFlight = 0))
    /\ [][BatchOnly]_vars

\* the second batch is in flight, full, after the first has finished
C17_Witness ==
    /\ pc = "gather" /\ i = 3 /\ config.batch_size = 3
    /\ InFlight = 3 /\ Len(outcomes) = 3

\* the sends that returned success in the cycle, all repositories together
AllNotified == SumSeq([k \in DOMAIN outcomes |-> outcomes[k].oks])

\* C18 as stated: whatever the fetches return, the sends return and the tasks
\* raise, a cycle returns the number of issues notified successfully in it.
C18_CountsEveryNotification == CycleReturned => returned = AllNotified

\* C18, amended: a cycle returns the number of issues notified successfully by the
\* repositories whose task did not raise; a task that raises counts zero, also for
\* what it had notified before, so the value is the number of notifications when
\* no task raised and never above it.
C18_CycleCount ==
    CycleReturned =>
        /\ returned = SumSeq([k \in DOMAIN outcomes |->
                                IF outcomes[k].raised THEN 0 ELSE outcomes[k].oks])
        /\ (\A k \in DOMAIN outcomes : ~outcomes[k].raised) => returned = AllNotified
        /\ returned <= AllNotified
        /\ returned = new_issues_count

\* a cycle returned 1 with two issues notified, one of them by a task that raised
\* afterwards
C18_Witness ==
    /\ CycleReturned
    /\ returned = 1 /\ AllNotified = 2
    /\ \E k \in DOMAIN outcomes : outcomes[k].raised /\ outcomes[k].oks = 1

\* the query of fetch f returns an issue updated at time t
InWindow(t, f) == f.since <= t /\ t <= f.at

\* C19: an issue inside the lookback window of the fetch of cycle n and not
\* notified then is inside the window of the fetch of cycle n + 1.
C19_SelfHealing ==
    \A n \in DOMAIN clock.fetches :
        (n + 1 \in DOMAIN clock.fetches /\ InWindow(clock.updated_at, clock.fetches[n]))
            => InWindow(clock.updated_at, clock.fetches[n + 1])

\* s is t without some of its first elements
IsSuffix(s, t) == Len(s) <= Len(t) /\ s = SubSeq(t, Len(t) - Len(s) + 1, Len(t))

\* the ids of a list of issues
Ids(issues) == [j \in DOMAIN issues |-> issues[j].id]

\* task k resumed its for loop in this step without raising
LoopResumed(k) ==
    /\ k \in DOMAIN tasks /\ k \in DOMAIN tasks'
    /\ tasks[k].pc \in {"fetch", "sleep"} /\ tasks'[k].pc \in {"send", "done"}
    /\ ~tasks'[k].raised

\* in such a step the issues passed over are the tracked ones at the head of what
\* was left, in order; the first untracked one is sent, nothing else
SkipsTrackedOnly(k) ==
    LET before == IF tasks[k].pc = "fetch" THEN tasks'[k].fetched
                  ELSE Ids(tasks[k].recent_issues)
        after == Ids(tasks'[k].recent_issues)
        passed == Len(before) - Len(after)
        repository == tasks[k].repository
    IN  /\ IsSuffix(after, before)
        /\ \A j \in 1..passed : is_issue_tracked(db, before[j], repository)
        /\ IF after = <<>>
           THEN tasks'[k].pc = "done" /\ tasks'[k].notified = tasks[k].notified
           ELSE /\ tasks'[k].pc = "send"
                /\ ~is_issue_tracked(db, after[1], repository)
                /\ tasks'[k].notified = Append(tasks[k].notified, after[1])

\* the order of the fetch is kept, and a task leaves its delay only to resume the
\* loop (or by an exception)
OrderAndDelay(k) ==
    /\ (k \in DOMAIN tasks /\ k \in DOMAIN tasks' /\ tasks[k].pc # "fetch") =>
          IsSuffix(Ids(tasks'[k].recent_issues), Ids(tasks[k].recent_issues))
    /\ (k \in DOMAIN tasks /\ k \in DOMAIN tasks' /\ tasks[k].pc = "sleep"
            /\ tasks'[k] # tasks[k]) => LoopResumed(k) \/ tasks'[k].raised
    /\ LoopResumed(k) => SkipsTrackedOnly(k)

NameNotStr(item) ==
    /\ item.labels.kind = "array"
    /\ \E k \in DOMAIN item.labels.entries :
          /\ item.labels.entries[k].dict
          /\ item.labels.entries[k].name.kind \in {"null", "number"}

\* the item was formatted and its notification sent, and it was recorded when the
\* send succeeded
Processed(id) ==
    \E k \in DOMAIN intake.done :
        /\ intake.done[k].id = id
        /\ intake.done[k].success => id \in intake.recorded

\* C21 (auxiliary): the fetch returns every item of a successful response whatever
\* its labels hold: a labels field that is no array gives no labels, an entry that is
\* no object is dropped, a missing name is the empty string; and no call fails
\* unless a label object holds null or a non-string under 'name'.
C21_FetchKeepsItems ==
    intake.pc \in {"loop", "returned"} =>
        /\ Len(intake.recent_issues) = Len(intake.issues_data)
        /\ \A k \in DOMAIN intake.issues_data :
              /\ intake.recent_issues[k].id = intake.issues_data[k].id
              /\ Len(intake.recent_issues[k].labels) <= Len(intake.issues_data[k].labels.entries)
              /\ intake.issues_data[k].labels.kind # "array"
                    => intake.recent_issues[k].labels = <<>>
        /\ intake.caught => \E k \in DOMAIN intake.issues_data :
                                NameNotStr(intake.issues_data[k])

\* C21: Defensive label parsing: an item of a successful response whose label entry
\* has a missing or malformed name (absent key, null, non-string) does not fail that
\* item: once check_repository has returned, every item of the response, the
\* malformed one and the others of the collection, was returned by the fetch, was
\* formatted and notified, and was recorded when its send succeeded.
C21_DefensiveLabels ==
    intake.pc = "returned" =>
        /\ ~intake.caught
        /\ \A k \in DOMAIN intake.issues_data : Processed(intake.issues_data[k].id)

\* the calls a whole cycle owes: one for each entry of the list, in list order, all
\* with the window w
OneFetchEach(w) ==
    [k \in DOMAIN config.repositories |->
        [repository |-> config.repositories[k], since_minutes |-> w]]

InCycle == pc \in {"gather", "batch_delay"}

\* C22: Cycle termination and coverage: for every configured batch size, zero and
\* negative values included (taken as 1), a cycle terminates and issues exactly one
\* fetch per entry of the repository list, in list order by batch, all with the same
\* window.  While a cycle runs, the fetches issued so far are the first entries of
\* that list, each batch gathered is not empty and adds its fetches beyond the index
\* it starts at; a cycle that returns has issued exactly the whole list; a cycle is
\* left only by its return or by a raised exception, and it is always left.
C22_CycleCoverage ==
    /\ [](InCycle =>
            /\ 0 <= i /\ i < Len(fetchLog) /\ Len(fetchLog) <= Len(config.repositories)
            /\ fetchLog = SubSeq(OneFetchEach(check_minutes), 1, Len(fetchLog))
            /\ pc = "gather" => tasks # <<>> /\ Len(tasks) = Len(fetchLog) - i)
    /\ [](CycleReturned => fetchLog = OneFetchEach(check_minutes))
    /\ [][(InCycle /\ ~InCycle') =>
            \/ pc' = "sleep"
            \/ pc' = "error_send" /\ faults' = faults + 1]_vars
    /\ InCycle ~> (pc \in {"sleep", "error_send"})

\* a cycle over the longest list has returned with BATCH_SIZE 0, one fetch for each
\* entry, one batch for each entry
C22_Witness ==
    /\ CycleReturned
    /\ config.batch_size = 0
    /\ Len(config.repositories) = MaxLong
    /\ Len(fetchLog) = MaxLong
    /\ Len(batches) = MaxLong

====
